---- MODULE Spec2Model ----
(***************************************************************************)
(* Journey planner of the Metrolink service layer: findJourneys            *)
(* (src/src/lib/services/journey-service.ts) with the two repository       *)
(* reads it awaits, findStationByCode and findAllConnections.              *)
(*                                                                         *)
(* The database is an input: the stations table is a set of station codes  *)
(* and each service route is a name with its ordered stops (route_stations *)
(* by stop_order).  Station names are carried by the code beside the       *)
(* station codes and never read, so the model carries the codes only.      *)
(***************************************************************************)
EXTENDS Integers, Sequences, FiniteSets, TLC

\* --------------------------------------------------------------- bounds
\* Largest number of service routes in the database.
NumRoutes == 3
\* Largest number of stops on one service route.
MaxRouteLen == 4
\* Largest number of route_stations rows, all routes together.
MaxStops == 6
\* Largest result count a caller passes; a call without a count takes the default.
MaxRequested == 1

\* Largest number of parallel lines between two stations.
MaxLines == 6
\* Largest number of hops of a single line from origin to destination.
MaxHops == 17

\* Largest number of calls of findJourneys in one behaviour.
MaxCalls == 2

\* Station codes of the stations table.
StationCodes == {"A", "B", "C", "D"}
\* Route names of service_routes.route_name: a string, the empty one included.
RouteNames == {"R1", "R2", ""}
\* Codes a caller passes as origin and as destination.
OriginCodes == {"A", "a", "zzz"}
DestinationCodes == {"a", "B", "zzz"}

\* ------------------------------------------------------ program constants
maxDepth == 15
maxIterations == 10000
defaultMaxResults == 3
oversampling == 5

\* -------------------------------------------------------------- helpers
\* T | null of the source: <<>> is null, <<x>> is the value x.
Null == <<>>
Some(x) == <<x>>
Min(a, b) == IF a <= b THEN a ELSE b

\* The code as the caller typed it.
asTyped(s) == s

\* String.prototype.toUpperCase on the codes of the model.
toUpperCase(s) ==
  CASE s = "a" -> "A"
    [] s = "b" -> "B"
    [] s = "c" -> "C"
    [] s = "d" -> "D"
    [] s = "e" -> "E"
    [] s = "zzz" -> "ZZZ"
    [] OTHER -> s

\* JavaScript truthiness of a `string | null` route name.
Truthy(routeName) == routeName # Null /\ routeName[1] # ""

VARIABLES stations, routes, pc, fromCode, toCode, maxResults,
          fromStation, toStation, graph, nodes, queue, visited,
          foundJourneys, iterations, result, returned, suspended

vars == <<stations, routes, pc, fromCode, toCode, maxResults,
          fromStation, toStation, graph, nodes, queue, visited,
          foundJourneys, iterations, result, returned, suspended>>

db == <<stations, routes>>
search == <<graph, nodes, queue, visited, foundJourneys, iterations>>
\* The calls that have returned or thrown, and the invocations that wait at an
\* await while another runs.
callers == <<returned, suspended>>

\* ---------------------------------------------------------- repositories
\* SELECT ... FROM stations WHERE station_code = $1; first row or null.
findStationByCode(table, code) ==
  IF code \in table THEN Some([code |-> code]) ELSE Null

\* Connections of one route: stop i joined to stop i + 1, by stop_order.
RECURSIVE RouteConnections(_, _, _)
RouteConnections(route, routeId, i) ==
  IF i >= Len(route.stops) THEN <<>>
  ELSE <<[fromStationCode |-> route.stops[i],
          toStationCode   |-> route.stops[i + 1],
          routeId         |-> routeId,
          routeName       |-> route.name,
          fromStopOrder   |-> i,
          toStopOrder     |-> i + 1]>> \o RouteConnections(route, routeId, i + 1)

\* All adjacent-stop pairs, ORDER BY route_id, stop_order.
RECURSIVE ConnectionsFrom(_, _)
ConnectionsFrom(rs, routeId) ==
  IF routeId > Len(rs) THEN <<>>
  ELSE RouteConnections(rs[routeId], routeId, 1) \o ConnectionsFrom(rs, routeId + 1)

findAllConnections(rs) == ConnectionsFrom(rs, 1)

\* ----------------------------------------------------------------- graph
\* graph.get(k).push(e), after graph.set(k, []) when k is a new key.
PushEdge(g, k, e) ==
  IF k \in DOMAIN g
    THEN [g EXCEPT ![k] = Append(@, e)]
    ELSE [x \in DOMAIN g \cup {k} |-> IF x = k THEN <<e>> ELSE g[x]]

\* The forward edge only.
AddConnectionForward(g, c) ==
  PushEdge(g, c.fromStationCode,
           [toStationCode |-> c.toStationCode,
            routeName |-> c.routeName, routeId |-> c.routeId])

AddConnection(g, c) ==
  LET forward  == PushEdge(g, c.fromStationCode,
                     [toStationCode |-> c.toStationCode,
                      routeName |-> c.routeName, routeId |-> c.routeId])
  IN  PushEdge(forward, c.toStationCode,
                     [toStationCode |-> c.fromStationCode,
                      routeName |-> c.routeName, routeId |-> c.routeId])

RECURSIVE BuildFrom(_, _, _)
BuildFrom(g, connections, i) ==
  IF i > Len(connections) THEN g
  ELSE BuildFrom(AddConnection(g, connections[i]), connections, i + 1)

buildConnectionGraph(connections) == BuildFrom(<<>>, connections, 1)

\* ------------------------------------------------------- path reconstruction
\* One step of the while loop of reconstructPath: `current` is an index of the
\* node arena ns, a parent of 0 is the null parent of the root.
RECURSIVE WalkBack(_, _, _)
WalkBack(ns, current, segments) ==
  IF ns[current].parent = 0 THEN segments
  ELSE LET node   == ns[current]
           parent == ns[node.parent]
           next   ==
             IF Truthy(node.routeName)
               THEN IF Len(segments) > 0 /\ segments[1].routeName = node.routeName[1]
                      THEN [segments EXCEPT ![1].fromStationCode = parent.stationCode,
                                            ![1].stopsCount = @ + 1]
                      ELSE <<[fromStationCode |-> parent.stationCode,
                              toStationCode   |-> node.stationCode,
                              routeName       |-> node.routeName[1],
                              stopsCount      |-> 1]>> \o segments
               ELSE segments
       IN  WalkBack(ns, node.parent, next)

\* The walk without the merge: every hop is a segment of its own.
RECURSIVE WalkBackUnmerged(_, _, _)
WalkBackUnmerged(ns, current, segments) ==
  IF ns[current].parent = 0 THEN segments
  ELSE LET node   == ns[current]
           parent == ns[node.parent]
           next   ==
             IF Truthy(node.routeName)
               THEN <<[fromStationCode |-> parent.stationCode,
                       toStationCode   |-> node.stationCode,
                       routeName       |-> node.routeName[1],
                       stopsCount      |-> 1]>> \o segments
               ELSE segments
       IN  WalkBackUnmerged(ns, node.parent, next)

reconstructPathUnmerged(ns, node) == WalkBackUnmerged(ns, node, <<>>)

\* The walk with a merge that counts the stop and leaves the origin of the
\* segment where it was.
RECURSIVE WalkBackKeepingOrigin(_, _, _)
WalkBackKeepingOrigin(ns, current, segments) ==
  IF ns[current].parent = 0 THEN segments
  ELSE LET node   == ns[current]
           parent == ns[node.parent]
           next   ==
             IF Truthy(node.routeName)
               THEN IF Len(segments) > 0 /\ segments[1].routeName = node.routeName[1]
                      THEN [segments EXCEPT ![1].stopsCount = @ + 1]
                      ELSE <<[fromStationCode |-> parent.stationCode,
                              toStationCode   |-> node.stationCode,
                              routeName       |-> node.routeName[1],
                              stopsCount      |-> 1]>> \o segments
               ELSE segments
       IN  WalkBackKeepingOrigin(ns, node.parent, next)

reconstructPathKeepingOrigin(ns, node) == WalkBackKeepingOrigin(ns, node, <<>>)

reconstructPath(ns, node) == WalkBack(ns, node, <<>>)

\* segments.reduce((sum, seg) => sum + seg.stopsCount, 0)
RECURSIVE SumStops(_, _)
SumStops(segments, i) ==
  IF i > Len(segments) THEN 0 ELSE segments[i].stopsCount + SumStops(segments, i + 1)

\* A journey whose changes are the number of its segments.
MakeJourneyCountingSegments(from, to, segments) ==
  [fromStationCode |-> from.code,
   toStationCode   |-> to.code,
   segments        |-> segments,
   totalStops      |-> SumStops(segments, 1),
   changes         |-> Len(segments)]

\* The journey pushed for a leaf whose path has the given segments.
MakeJourney(from, to, segments) ==
  [fromStationCode |-> from.code,
   toStationCode   |-> to.code,
   segments        |-> segments,
   totalStops      |-> SumStops(segments, 1),
   changes         |-> Len(segments) - 1]

\* --------------------------------------------------------------- ranking
\* The comparator handed to foundJourneys.sort.
compare(a, b) ==
  IF a.changes # b.changes THEN a.changes - b.changes
  ELSE a.totalStops - b.totalStops

\* Array.prototype.sort is stable: x goes before the first element that the
\* comparator puts strictly after it.
RECURSIVE InsertSorted(_, _, _)
InsertSorted(sorted, x, i) ==
  IF i > Len(sorted) THEN Append(sorted, x)
  ELSE IF compare(sorted[i], x) > 0
         THEN SubSeq(sorted, 1, i - 1) \o <<x>> \o SubSeq(sorted, i, Len(sorted))
         ELSE InsertSorted(sorted, x, i + 1)

RECURSIVE SortFrom(_, _, _)
SortFrom(sorted, js, i) ==
  IF i > Len(js) THEN sorted
  ELSE SortFrom(InsertSorted(sorted, js[i], 1), js, i + 1)

\* The list left in the order of discovery.
unsorted(js) == js

\* An unstable sort: x goes before the first element that the comparator does
\* not put strictly before it, so equal journeys end up in reverse order.
RECURSIVE InsertBeforeTies(_, _, _)
InsertBeforeTies(sorted, x, i) ==
  IF i > Len(sorted) THEN Append(sorted, x)
  ELSE IF compare(sorted[i], x) >= 0
         THEN SubSeq(sorted, 1, i - 1) \o <<x>> \o SubSeq(sorted, i, Len(sorted))
         ELSE InsertBeforeTies(sorted, x, i + 1)

RECURSIVE SortUnstableFrom(_, _, _)
SortUnstableFrom(sorted, js, i) ==
  IF i > Len(js) THEN sorted
  ELSE SortUnstableFrom(InsertBeforeTies(sorted, js[i], 1), js, i + 1)

sortUnstable(js) == SortUnstableFrom(<<>>, js, 1)

sort(js) == SortFrom(<<>>, js, 1)

\* The whole list, whatever n.
sliceAll(js, n) == js

\* Array.prototype.slice(0, n) for n >= 0.
slice(js, n) == SubSeq(js, 1, Min(n, Len(js)))

\* ---------------------------------------------------------------- search
\* The for loop with a test that also lets a key through at the depth it
\* already has: current.depth + 1 <= existingDepth.
RECURSIVE ExploreAtEqualDepth(_, _, _, _)
ExploreAtEqualDepth(st, neighbors, current, i) ==
  IF i > Len(neighbors) THEN st
  ELSE LET neighbor == neighbors[i]
           stateKey == <<neighbor.toStationCode, neighbor.routeName>>
           depth    == st.nodes[current].depth + 1
           absent   == stateKey \notin DOMAIN st.visited
           \* !existingDepth || current.depth + 1 <= existingDepth
           visit    == absent \/ st.visited[stateKey] = 0 \/ depth <= st.visited[stateKey]
           child    == [stationCode |-> neighbor.toStationCode,
                        routeName   |-> Some(neighbor.routeName),
                        depth       |-> depth,
                        parent      |-> current]
           next     ==
             IF visit
               THEN [nodes   |-> Append(st.nodes, child),
                     queue   |-> Append(st.queue, Len(st.nodes) + 1),
                     visited |-> [k \in DOMAIN st.visited \cup {stateKey} |->
                                    IF k = stateKey THEN depth ELSE st.visited[k]]]
               ELSE st
       IN  ExploreAtEqualDepth(next, neighbors, current, i + 1)

\* The for loop of a depth-first search: the child goes to the front of the
\* queue, queue.unshift, and is the next node dequeued.
RECURSIVE ExploreDepthFirst(_, _, _, _)
ExploreDepthFirst(st, neighbors, current, i) ==
  IF i > Len(neighbors) THEN st
  ELSE LET neighbor == neighbors[i]
           stateKey == <<neighbor.toStationCode, neighbor.routeName>>
           depth    == st.nodes[current].depth + 1
           absent   == stateKey \notin DOMAIN st.visited
           \* !existingDepth || current.depth + 1 < existingDepth
           visit    == absent \/ st.visited[stateKey] = 0 \/ depth < st.visited[stateKey]
           child    == [stationCode |-> neighbor.toStationCode,
                        routeName   |-> Some(neighbor.routeName),
                        depth       |-> depth,
                        parent      |-> current]
           next     ==
             IF visit
               THEN [nodes   |-> Append(st.nodes, child),
                     queue   |-> <<Len(st.nodes) + 1>> \o st.queue,
                     visited |-> [k \in DOMAIN st.visited \cup {stateKey} |->
                                    IF k = stateKey THEN depth ELSE st.visited[k]]]
               ELSE st
       IN  ExploreDepthFirst(next, neighbors, current, i + 1)

\* The for loop over the neighbours of the dequeued node `current`: st is
\* [nodes, queue, visited].  The key `${toStationCode}:${routeName}` is the
\* pair: station codes are three letters, so no two pairs make one string.
RECURSIVE Explore(_, _, _, _)
Explore(st, neighbors, current, i) ==
  IF i > Len(neighbors) THEN st
  ELSE LET neighbor == neighbors[i]
           stateKey == <<neighbor.toStationCode, neighbor.routeName>>
           depth    == st.nodes[current].depth + 1
           absent   == stateKey \notin DOMAIN st.visited
           \* !existingDepth || current.depth + 1 < existingDepth
           visit    == absent \/ st.visited[stateKey] = 0 \/ depth < st.visited[stateKey]
           child    == [stationCode |-> neighbor.toStationCode,
                        routeName   |-> Some(neighbor.routeName),
                        depth       |-> depth,
                        parent      |-> current]
           next     ==
             IF visit
               THEN [nodes   |-> Append(st.nodes, child),
                     queue   |-> Append(st.queue, Len(st.nodes) + 1),
                     visited |-> [k \in DOMAIN st.visited \cup {stateKey} |->
                                    IF k = stateKey THEN depth ELSE st.visited[k]]]
               ELSE st
       IN  Explore(next, neighbors, current, i + 1)

\* ------------------------------------------------------------------ state
NoResult == [kind |-> "pending", journeys |-> <<>>, message |-> "", code |-> ""]
Journeys(js) == [kind |-> "journeys", journeys |-> js, message |-> "", code |-> ""]
Failure(message, code) ==
  [kind |-> "error", journeys |-> <<>>, message |-> message, code |-> code]

\* new Error(`Station not found: ${code}`)
StationNotFound(code) == Failure("Station not found: ", code)
\* new Error(`No connections found from station: ${code}`)
NoConnections(code) == Failure("No connections found from station: ", code)

\* A lookup that answers "same object": two lookups never return one object.
sameStationObject(from, to) == FALSE

\* fromStation.code === toStation.code
sameStation(from, to) == from.code = to.code

\* A check that never misses a key.
hasAny(g, code) == TRUE

\* graph.has(code)
has(g, code) == code \in DOMAIN g

\* graph.get(code) || []
get(g, code) == IF code \in DOMAIN g THEN g[code] ELSE <<>>

\* Stop sequences of a route with n stops: every station at most once.
StopSeqsOf(n) ==
  {s \in [1..n -> StationCodes] : \A i, j \in 1..n : i # j => s[i] # s[j]}

RECURSIVE Sum(_, _)
Sum(ns, i) == IF i > Len(ns) THEN 0 ELSE ns[i] + Sum(ns, i + 1)

\* The numbers of stops of the routes of a database: at most NumRoutes routes
\* of two to MaxRouteLen stops, at most MaxStops stops together.
Profiles ==
  {lens \in UNION {[1..k -> 2..MaxRouteLen] : k \in 0..NumRoutes} : Sum(lens, 1) <= MaxStops}

\* The stop sequences of the routes of a database with the given profile.
StopsOf(lens) ==
  {f \in [1..Len(lens) -> UNION {StopSeqsOf(lens[r]) : r \in 1..Len(lens)}] :
     \A r \in 1..Len(lens) : Len(f[r]) = lens[r]}

\* The stops of all routes, in route order.
RECURSIVE AllStops(_, _)
AllStops(rs, r) == IF r > Len(rs) THEN <<>> ELSE rs[r].stops \o AllStops(rs, r + 1)

\* x occurs in the sequence only after an occurrence of y.
OnlyAfter(seq, x, y) ==
  \A i \in 1..Len(seq) : seq[i] = x => \E j \in 1..(i - 1) : seq[j] = y

\* The networks a call is planned on.  Route names are only compared with each
\* other and tested for emptiness, and no caller's code names C or D, so
\* without loss of generality R2 names a route only after R1 does and D is a
\* stop only after C is.
Network(rs) ==
  /\ OnlyAfter([r \in 1..Len(rs) |-> rs[r].name], "R2", "R1")
  /\ OnlyAfter(AllStops(rs, 1), "D", "C")

\* Everything of an invocation, before the call.
Idle ==
  /\ pc = "idle"
  /\ fromCode = "" /\ toCode = "" /\ maxResults = 0
  /\ fromStation = Null /\ toStation = Null
  /\ graph = <<>> /\ nodes = <<>> /\ queue = <<>> /\ visited = <<>>
  /\ foundJourneys = <<>> /\ iterations = 0
  /\ result = NoResult
  /\ returned = <<>> /\ suspended = <<>>

\* The parameters and locals of an invocation that has not started.
IdleFrame ==
  [pc |-> "idle", fromCode |-> "", toCode |-> "", maxResults |-> 0,
   fromStation |-> Null, toStation |-> Null,
   graph |-> <<>>, nodes |-> <<>>, queue |-> <<>>, visited |-> <<>>,
   foundJourneys |-> <<>>, iterations |-> 0, result |-> NoResult]

\* The parameters and locals of the running invocation.
Frame ==
  [pc |-> pc, fromCode |-> fromCode, toCode |-> toCode, maxResults |-> maxResults,
   fromStation |-> fromStation, toStation |-> toStation,
   graph |-> graph, nodes |-> nodes, queue |-> queue, visited |-> visited,
   foundJourneys |-> foundJourneys, iterations |-> iterations, result |-> result]

\* The visited map as a module-level object: one map for all invocations.
SwitchSharingVisited(frame) ==
  /\ pc' = frame.pc
  /\ fromCode' = frame.fromCode /\ toCode' = frame.toCode
  /\ maxResults' = frame.maxResults
  /\ fromStation' = frame.fromStation /\ toStation' = frame.toStation
  /\ graph' = frame.graph /\ nodes' = frame.nodes /\ queue' = frame.queue
  /\ foundJourneys' = frame.foundJourneys /\ iterations' = frame.iterations
  /\ result' = frame.result
  /\ UNCHANGED visited

\* The looked-up stations as module-level variables, shared by all invocations.
SwitchSharingStations(frame) ==
  /\ pc' = frame.pc
  /\ fromCode' = frame.fromCode /\ toCode' = frame.toCode
  /\ maxResults' = frame.maxResults
  /\ graph' = frame.graph /\ nodes' = frame.nodes /\ queue' = frame.queue
  /\ visited' = frame.visited
  /\ foundJourneys' = frame.foundJourneys /\ iterations' = frame.iterations
  /\ result' = frame.result
  /\ UNCHANGED <<fromStation, toStation>>

\* Another invocation takes the thread: every parameter and local is its own.
Switch(frame) ==
  /\ pc' = frame.pc
  /\ fromCode' = frame.fromCode /\ toCode' = frame.toCode
  /\ maxResults' = frame.maxResults
  /\ fromStation' = frame.fromStation /\ toStation' = frame.toStation
  /\ graph' = frame.graph /\ nodes' = frame.nodes /\ queue' = frame.queue
  /\ visited' = frame.visited
  /\ foundJourneys' = frame.foundJourneys /\ iterations' = frame.iterations
  /\ result' = frame.result

\* Every station of the universe is in the stations table; the routes are any
\* network over them.
Init ==
  /\ stations = StationCodes
  /\ \E lens \in Profiles :
       \E stops \in StopsOf(lens), names \in [1..Len(lens) -> RouteNames] :
         /\ routes = [r \in 1..Len(lens) |-> [name |-> names[r], stops |-> stops[r]]]
         /\ Network(routes)
  /\ Idle

\* findJourneys(fromCode, toCode, maxResults = 3) up to its first await: both
\* station lookups are issued with the upper-cased codes.
Call(from, to, requested) ==
  /\ pc = "idle"
  /\ fromCode' = from /\ toCode' = to
  /\ maxResults' = IF requested = Null THEN defaultMaxResults ELSE requested[1]
  /\ fromStation' = findStationByCode(stations, toUpperCase(from))
  /\ toStation' = findStationByCode(stations, toUpperCase(to))
  /\ pc' = "validate"
  /\ UNCHANGED <<db, callers, search, result>>

\* if (!fromStation) throw new Error(`Station not found: ${fromCode}`)
FromNotFound ==
  /\ pc = "validate" /\ fromStation = Null
  /\ result' = StationNotFound(fromCode)
  /\ pc' = "failed"
  /\ UNCHANGED <<db, callers, search, fromCode, toCode, maxResults, fromStation, toStation>>

\* The second check with the message of the first: it names the origin code.
ToNotFoundNamingOrigin ==
  /\ pc = "validate" /\ fromStation # Null /\ toStation = Null
  /\ result' = StationNotFound(fromCode)
  /\ pc' = "failed"
  /\ UNCHANGED <<db, callers, search, fromCode, toCode, maxResults, fromStation, toStation>>

\* if (!toStation) throw new Error(`Station not found: ${toCode}`)
ToNotFound ==
  /\ pc = "validate" /\ fromStation # Null /\ toStation = Null
  /\ result' = StationNotFound(toCode)
  /\ pc' = "failed"
  /\ UNCHANGED <<db, callers, search, fromCode, toCode, maxResults, fromStation, toStation>>

\* The same-station check placed after the check of the origin's edges: a
\* station without an edge fails before it is compared with the destination.
SameStationAfterEdgeCheck ==
  /\ pc = "validate" /\ fromStation # Null /\ toStation # Null
  /\ sameStation(fromStation[1], toStation[1])
  /\ IF ~has(buildConnectionGraph(findAllConnections(routes)), fromStation[1].code)
       THEN result' = NoConnections(fromStation[1].code) /\ pc' = "failed"
       ELSE result' = Journeys(<<>>) /\ pc' = "done"
  /\ UNCHANGED <<db, callers, search, fromCode, toCode, maxResults, fromStation, toStation>>

\* if (fromStation.code === toStation.code) return []
SameStation ==
  /\ pc = "validate" /\ fromStation # Null /\ toStation # Null
  /\ sameStation(fromStation[1], toStation[1])
  /\ result' = Journeys(<<>>)
  /\ pc' = "done"
  /\ UNCHANGED <<db, callers, search, fromCode, toCode, maxResults, fromStation, toStation>>

\* The connections are fetched as soon as both stations are found, the same
\* station or not.
FetchConnectionsForSameStation ==
  /\ pc = "validate" /\ fromStation # Null /\ toStation # Null
  /\ pc' = "connections"
  /\ UNCHANGED <<db, callers, search, fromCode, toCode, maxResults, fromStation, toStation, result>>

\* Both stations found and different: await findAllConnections().
FetchConnections ==
  /\ pc = "validate" /\ fromStation # Null /\ toStation # Null
  /\ ~sameStation(fromStation[1], toStation[1])
  /\ pc' = "connections"
  /\ UNCHANGED <<db, callers, search, fromCode, toCode, maxResults, fromStation, toStation, result>>

\* The graph is built; an origin that is no key of it is an error, otherwise
\* the queue is seeded with the root node.
BuildGraph ==
  /\ pc = "connections"
  /\ LET g == buildConnectionGraph(findAllConnections(routes))
     IN  /\ graph' = g
         /\ IF ~has(g, fromStation[1].code)
              THEN /\ result' = NoConnections(fromStation[1].code)
                   /\ pc' = "failed"
                   /\ UNCHANGED <<nodes, queue>>
              ELSE /\ nodes' = <<[stationCode |-> fromStation[1].code,
                                  routeName   |-> Null,
                                  depth       |-> 0,
                                  parent      |-> 0]>>
                   /\ queue' = <<1>>
                   /\ pc' = "search"
                   /\ UNCHANGED result
  /\ UNCHANGED <<db, callers, visited, foundJourneys, iterations,
                 fromCode, toCode, maxResults, fromStation, toStation>>

\* A loop condition without the leaf cap: while (queue.length > 0)
LoopConditionQueueOnly == Len(queue) > 0

\* while (queue.length > 0 && foundJourneys.length < maxResults * 5)
LoopCondition == Len(queue) > 0 /\ Len(foundJourneys) < maxResults * oversampling

\* An iteration that leaves the counter alone: iterations++ is missing.
IterateUncounted ==
  /\ pc = "search" /\ LoopCondition
  /\ UNCHANGED iterations
  /\ IF iterations + 1 > maxIterations
       THEN \* break
            /\ pc' = "rank"
            /\ UNCHANGED <<nodes, queue, visited, foundJourneys>>
       ELSE LET current == Head(queue)
                node    == nodes[current]
            IN  /\ pc' = "search"
                /\ IF node.depth > maxDepth
                     THEN \* continue
                          /\ queue' = Tail(queue)
                          /\ UNCHANGED <<nodes, visited, foundJourneys>>
                     ELSE IF node.stationCode = toStation[1].code
                       THEN LET segments == reconstructPath(nodes, current)
                            IN  /\ queue' = Tail(queue)
                                /\ foundJourneys' =
                                     IF Len(segments) > 0
                                       THEN Append(foundJourneys,
                                              MakeJourney(fromStation[1], toStation[1], segments))
                                       ELSE foundJourneys
                                /\ UNCHANGED <<nodes, visited>>
                       ELSE LET neighbors == get(graph, node.stationCode)
                                st == Explore([nodes |-> nodes, queue |-> Tail(queue),
                                               visited |-> visited], neighbors, current, 1)
                            IN  /\ nodes' = st.nodes
                                /\ queue' = st.queue
                                /\ visited' = st.visited
                                /\ UNCHANGED foundJourneys
  /\ UNCHANGED <<db, callers, graph, fromCode, toCode, maxResults, fromStation, toStation, result>>

\* An iteration without the depth test: a node is handled whatever its depth.
IterateAnyDepth ==
  /\ pc = "search" /\ LoopCondition
  /\ iterations' = iterations + 1
  /\ IF iterations + 1 > maxIterations
       THEN \* break
            /\ pc' = "rank"
            /\ UNCHANGED <<nodes, queue, visited, foundJourneys>>
       ELSE LET current == Head(queue)
                node    == nodes[current]
            IN  /\ pc' = "search"
                /\ IF FALSE
                     THEN \* continue
                          /\ queue' = Tail(queue)
                          /\ UNCHANGED <<nodes, visited, foundJourneys>>
                     ELSE IF node.stationCode = toStation[1].code
                       THEN LET segments == reconstructPath(nodes, current)
                            IN  /\ queue' = Tail(queue)
                                /\ foundJourneys' =
                                     IF Len(segments) > 0
                                       THEN Append(foundJourneys,
                                              MakeJourney(fromStation[1], toStation[1], segments))
                                       ELSE foundJourneys
                                /\ UNCHANGED <<nodes, visited>>
                       ELSE LET neighbors == get(graph, node.stationCode)
                                st == Explore([nodes |-> nodes, queue |-> Tail(queue),
                                               visited |-> visited], neighbors, current, 1)
                            IN  /\ nodes' = st.nodes
                                /\ queue' = st.queue
                                /\ visited' = st.visited
                                /\ UNCHANGED foundJourneys
  /\ UNCHANGED <<db, callers, graph, fromCode, toCode, maxResults, fromStation, toStation, result>>

\* An iteration without the continue of the destination: the node is recorded
\* and its neighbours are explored all the same.
IterateThroughDestination ==
  /\ pc = "search" /\ LoopCondition
  /\ iterations' = iterations + 1
  /\ IF iterations + 1 > maxIterations
       THEN \* break
            /\ pc' = "rank"
            /\ UNCHANGED <<nodes, queue, visited, foundJourneys>>
       ELSE LET current == Head(queue)
                node    == nodes[current]
            IN  /\ pc' = "search"
                /\ IF node.depth > maxDepth
                     THEN \* continue
                          /\ queue' = Tail(queue)
                          /\ UNCHANGED <<nodes, visited, foundJourneys>>
                     ELSE IF node.stationCode = toStation[1].code
                       THEN LET segments == reconstructPath(nodes, current)
                                neighbors == get(graph, node.stationCode)
                                st == Explore([nodes |-> nodes, queue |-> Tail(queue),
                                               visited |-> visited], neighbors, current, 1)
                            IN  /\ foundJourneys' =
                                     IF Len(segments) > 0
                                       THEN Append(foundJourneys,
                                              MakeJourney(fromStation[1], toStation[1], segments))
                                       ELSE foundJourneys
                                /\ nodes' = st.nodes
                                /\ queue' = st.queue
                                /\ visited' = st.visited
                       ELSE LET neighbors == get(graph, node.stationCode)
                                st == Explore([nodes |-> nodes, queue |-> Tail(queue),
                                               visited |-> visited], neighbors, current, 1)
                            IN  /\ nodes' = st.nodes
                                /\ queue' = st.queue
                                /\ visited' = st.visited
                                /\ UNCHANGED foundJourneys
  /\ UNCHANGED <<db, callers, graph, fromCode, toCode, maxResults, fromStation, toStation, result>>

\* One iteration of the while loop.
Iterate ==
  /\ pc = "search" /\ LoopCondition
  /\ iterations' = iterations + 1
  /\ IF iterations + 1 > maxIterations
       THEN \* break
            /\ pc' = "rank"
            /\ UNCHANGED <<nodes, queue, visited, foundJourneys>>
       ELSE LET current == Head(queue)
                node    == nodes[current]
            IN  /\ pc' = "search"
                /\ IF node.depth > maxDepth
                     THEN \* continue
                          /\ queue' = Tail(queue)
                          /\ UNCHANGED <<nodes, visited, foundJourneys>>
                     ELSE IF node.stationCode = toStation[1].code
                       THEN LET segments == reconstructPath(nodes, current)
                            IN  /\ queue' = Tail(queue)
                                /\ foundJourneys' =
                                     IF Len(segments) > 0
                                       THEN Append(foundJourneys,
                                              MakeJourney(fromStation[1], toStation[1], segments))
                                       ELSE foundJourneys
                                /\ UNCHANGED <<nodes, visited>>
                       ELSE LET neighbors == get(graph, node.stationCode)
                                st == Explore([nodes |-> nodes, queue |-> Tail(queue),
                                               visited |-> visited], neighbors, current, 1)
                            IN  /\ nodes' = st.nodes
                                /\ queue' = st.queue
                                /\ visited' = st.visited
                                /\ UNCHANGED foundJourneys
  /\ UNCHANGED <<db, callers, graph, fromCode, toCode, maxResults, fromStation, toStation, result>>

\* A loop that is left with nodes still queued is treated as an error.
LoopExitThrowing ==
  /\ pc = "search" /\ ~LoopCondition
  /\ IF Len(queue) > 0
       THEN result' = Failure("Search limit reached", "") /\ pc' = "failed"
       ELSE pc' = "rank" /\ UNCHANGED result
  /\ UNCHANGED <<db, callers, search, fromCode, toCode, maxResults, fromStation, toStation>>

\* The loop condition fails: the loop is left.
LoopExit ==
  /\ pc = "search" /\ ~LoopCondition
  /\ pc' = "rank"
  /\ UNCHANGED <<db, callers, search, fromCode, toCode, maxResults, fromStation, toStation, result>>

\* foundJourneys.sort(...) in place, then return foundJourneys.slice(0, maxResults).
Rank ==
  /\ pc = "rank"
  /\ foundJourneys' = sort(foundJourneys)
  /\ result' = Journeys(slice(foundJourneys', maxResults))
  /\ pc' = "done"
  /\ UNCHANGED <<db, callers, graph, nodes, queue, visited, iterations,
                 fromCode, toCode, maxResults, fromStation, toStation>>

\* The promise of findJourneys settles: the caller has the journeys or the
\* error, and the invocation is over.
Return ==
  /\ pc \in {"done", "failed"}
  /\ returned' = Append(returned, [fromCode |-> fromCode, toCode |-> toCode,
                                   maxResults |-> maxResults, result |-> result])
  /\ Switch(IdleFrame)
  /\ UNCHANGED <<db, suspended>>

\* The running invocation waits at an await (the station lookups of line 138,
\* findAllConnections of line 155) and gives the thread away.
Suspend ==
  /\ pc \in {"validate", "connections"}
  /\ suspended' = Append(suspended, Frame)
  /\ Switch(IdleFrame)
  /\ UNCHANGED <<db, returned>>

\* The thread is free and an awaited read has answered: the invocation that
\* waited for it goes on.
Resume(i) ==
  /\ pc = "idle"
  /\ i \in 1..Len(suspended)
  /\ suspended' = SubSeq(suspended, 1, i - 1) \o SubSeq(suspended, i + 1, Len(suspended))
  /\ Switch(suspended[i])
  /\ UNCHANGED <<db, returned>>

\* Invocations started so far.
Started == Len(returned) + Len(suspended) + (IF pc = "idle" THEN 0 ELSE 1)

Requests == {Null} \cup {Some(n) : n \in 1..MaxRequested}

Next ==
  \/ \E from \in OriginCodes, to \in DestinationCodes, requested \in Requests :
       Call(from, to, requested)
  \/ FromNotFound
  \/ ToNotFound
  \/ SameStation
  \/ FetchConnections
  \/ BuildGraph
  \/ Iterate
  \/ LoopExit
  \/ Rank

Spec == Init /\ [][Next]_vars

\* One call of each outcome on every network, to follow the loop to its end.
NextTerminating ==
  \/ \E from \in {"A", "zzz"}, to \in DestinationCodes : Call(from, to, Null)
  \/ FromNotFound
  \/ ToNotFound
  \/ SameStation
  \/ FetchConnections
  \/ BuildGraph
  \/ Iterate
  \/ LoopExit
  \/ Rank

\* The loop is synchronous code: once entered, it runs until it is left.
SpecTerminating ==
  Init /\ [][NextTerminating]_vars /\ WF_vars(Iterate) /\ WF_vars(LoopExit)

\* The network of the concrete scenarios: R1 visits A, B, C and R2 visits
\* B, D, E.
ScenarioStations == {"A", "B", "C", "D", "E"}
ScenarioRoutes ==
  <<[name |-> "R1", stops |-> <<"A", "B", "C">>],
    [name |-> "R2", stops |-> <<"B", "D", "E">>]>>
ScenarioCodes == ScenarioStations \cup {"a", "e", "ZZZ"}

InitScenario ==
  /\ stations = ScenarioStations
  /\ routes = ScenarioRoutes
  /\ Idle

NextScenario ==
  \/ \E from \in ScenarioCodes, to \in ScenarioCodes, requested \in Requests :
       Call(from, to, requested)
  \/ FromNotFound
  \/ ToNotFound
  \/ SameStation
  \/ FetchConnections
  \/ BuildGraph
  \/ Iterate
  \/ LoopExit
  \/ Rank

SpecScenario == InitScenario /\ [][NextScenario]_vars

\* Networks that take the search to its budgets: k lines that each join A and
\* B directly, and one line of n hops from A to B.
LineNames == <<"L1", "L2", "L3", "L4", "L5", "L6", "L7", "L8">>
MiddleCodes ==
  <<"S1", "S2", "S3", "S4", "S5", "S6", "S7", "S8", "S9", "S10",
    "S11", "S12", "S13", "S14", "S15", "S16", "S17", "S18", "S19", "S20">>

Star(k) == [r \in 1..k |-> [name |-> LineNames[r], stops |-> <<"A", "B">>]]
Line(n) == <<[name |-> "R1", stops |-> <<"A">> \o SubSeq(MiddleCodes, 1, n - 1) \o <<"B">>]>>

InitBudget ==
  /\ stations = {"A", "B"} \cup {MiddleCodes[i] : i \in 1..MaxHops}
  /\ \/ \E k \in 1..MaxLines : routes = Star(k)
     \/ \E n \in 1..MaxHops : routes = Line(n)
  /\ Idle

NextBudget ==
  \/ \E from \in {"A", "zzz"}, to \in DestinationCodes, requested \in Requests :
       Call(from, to, requested)
  \/ FromNotFound
  \/ ToNotFound
  \/ SameStation
  \/ FetchConnections
  \/ BuildGraph
  \/ Iterate
  \/ LoopExit
  \/ Rank

SpecBudget == InitBudget /\ [][NextBudget]_vars

\* ------------------------------------------------ findJourneys as a function
\* The while loop run to its end on s = [nodes, queue, visited, foundJourneys,
\* iterations]: the journeys found, in the order of their discovery.
RECURSIVE whileLoop(_, _, _, _, _)
whileLoop(s, g, from, to, n) ==
  IF ~(Len(s.queue) > 0 /\ Len(s.foundJourneys) < n * oversampling)
    THEN s.foundJourneys
  ELSE IF s.iterations + 1 > maxIterations
    THEN s.foundJourneys
  ELSE LET current == Head(s.queue)
           node    == s.nodes[current]
           shifted == [s EXCEPT !.iterations = @ + 1, !.queue = Tail(@)]
       IN  IF node.depth > maxDepth
             THEN whileLoop(shifted, g, from, to, n)
           ELSE IF node.stationCode = to.code
             THEN LET segments == reconstructPath(s.nodes, current)
                  IN  IF Len(segments) > 0
                        THEN whileLoop([shifted EXCEPT !.foundJourneys =
                                          Append(@, MakeJourney(from, to, segments))],
                                       g, from, to, n)
                        ELSE whileLoop(shifted, g, from, to, n)
           ELSE LET st == Explore([nodes |-> s.nodes, queue |-> Tail(s.queue),
                                   visited |-> s.visited],
                                  get(g, node.stationCode), current, 1)
                IN  whileLoop([shifted EXCEPT !.nodes = st.nodes, !.queue = st.queue,
                                              !.visited = st.visited],
                              g, from, to, n)

\* What one invocation of findJourneys(from, to, n) settles with when nothing
\* else runs.
findJourneys(table, rs, from, to, n) ==
  LET origin      == findStationByCode(table, toUpperCase(from))
      destination == findStationByCode(table, toUpperCase(to))
  IN  IF origin = Null THEN StationNotFound(from)
      ELSE IF destination = Null THEN StationNotFound(to)
      ELSE IF sameStation(origin[1], destination[1]) THEN Journeys(<<>>)
      ELSE LET g == buildConnectionGraph(findAllConnections(rs))
           IN  IF ~has(g, origin[1].code) THEN NoConnections(origin[1].code)
               ELSE LET root == [stationCode |-> origin[1].code, routeName |-> Null,
                                 depth |-> 0, parent |-> 0]
                        found == whileLoop([nodes |-> <<root>>, queue |-> <<1>>,
                                            visited |-> <<>>, foundJourneys |-> <<>>,
                                            iterations |-> 0],
                                           g, origin[1], destination[1], n)
                    IN  Journeys(slice(sort(found), n))

\* ------------------------------------------------------------ repeated calls
\* A call, its return, and the same call once more.
NextRepeat ==
  \/ \E from \in {"A", "zzz"}, to \in DestinationCodes, requested \in Requests :
       returned = <<>> /\ Call(from, to, requested)
  \/ /\ returned # <<>> /\ Len(returned) < MaxCalls
     /\ Call(returned[1].fromCode, returned[1].toCode, Some(returned[1].maxResults))
  \/ FromNotFound
  \/ ToNotFound
  \/ SameStation
  \/ FetchConnections
  \/ BuildGraph
  \/ Iterate
  \/ LoopExit
  \/ Rank
  \/ Return

SpecRepeat == Init /\ [][NextRepeat]_vars

\* --------------------------------------------------------- concurrent calls
\* Calls that overlap on the scenario network: an invocation that awaits a
\* repository read leaves the thread to another.
NextConcurrent ==
  \/ \E from \in {"A", "C", "ZZZ"}, to \in {"E", "C", "ZZZ"}, requested \in Requests :
       Started < MaxCalls /\ Call(from, to, requested)
  \/ FromNotFound
  \/ ToNotFound
  \/ SameStation
  \/ FetchConnections
  \/ BuildGraph
  \/ Iterate
  \/ LoopExit
  \/ Rank
  \/ Return
  \/ Suspend
  \/ \E i \in 1..MaxCalls : Resume(i)

SpecConcurrent == InitScenario /\ [][NextConcurrent]_vars

\* ================================================================ claims
\* The station lookup of findJourneys finds a station for the code.
Resolves(code) == toUpperCase(code) \in stations

\* The connection list the graph is built from.
Connections == findAllConnections(routes)

\* The station is an end of some connection: it has an edge in the graph that
\* holds every connection forwards and backwards.
HasEdge(code) ==
  \E i \in 1..Len(Connections) :
    Connections[i].fromStationCode = code \/ Connections[i].toStationCode = code

\* Every route of the database has a name that is not empty.
NamedRoutes == \A r \in 1..Len(routes) : routes[r].name # ""

\* C1, as stated: for every code c, whatever the stations table holds,
\* findJourneys(c, c) returns the empty list and throws nothing.
C1_SameCodeReturnsEmpty ==
  (pc \notin {"idle", "validate"} /\ fromCode = toCode)
    => (pc = "done" /\ result = Journeys(<<>>))

\* C1, amended: for every code c that the station lookup resolves,
\* findJourneys(c, c) returns the empty list and throws nothing; it neither
\* fetches connections nor searches.
C1_ResolvedSameCodeReturnsEmpty ==
  (pc \notin {"idle", "validate"} /\ fromCode = toCode /\ Resolves(fromCode))
    => (pc = "done" /\ result = Journeys(<<>>))

C1_Witness ==
  pc = "done" /\ fromCode = "a" /\ toCode = "a" /\ result = Journeys(<<>>)

\* C2: when the origin code or the destination code resolves to no station,
\* findJourneys throws "Station not found" naming a code that did not resolve,
\* and returns no journeys.
C2_UnknownCodeFails ==
  (pc \notin {"idle", "validate"} /\ (~Resolves(fromCode) \/ ~Resolves(toCode)))
    => /\ pc = "failed"
       /\ result.kind = "error"
       /\ result.message = "Station not found: "
       /\ result.code \in {c \in {fromCode, toCode} : ~Resolves(c)}
       /\ result.journeys = <<>>

C2_Witness ==
  pc = "failed" /\ fromCode = "a" /\ toCode = "zzz" /\ result = StationNotFound("zzz")

\* C3: when both codes resolve to different stations and the origin station
\* has no edge in the graph, findJourneys throws "No connections found from
\* station" for the origin station and returns no list.
C3_NoConnectionsFails ==
  (/\ pc \notin {"idle", "validate", "connections"}
   /\ Resolves(fromCode) /\ Resolves(toCode)
   /\ toUpperCase(fromCode) # toUpperCase(toCode)
   /\ ~HasEdge(toUpperCase(fromCode)))
    => (pc = "failed" /\ result = NoConnections(toUpperCase(fromCode)))

C3_Witness ==
  /\ pc = "failed" /\ fromCode = "a" /\ toCode = "B"
  /\ result = NoConnections("A")
  /\ HasEdge("B")

\* a is ranked no later than b.
Ordered(a, b) ==
  a.changes < b.changes \/ (a.changes = b.changes /\ a.totalStops <= b.totalStops)

\* C4: the returned list is sorted by changes, then by total stops.
C4_ResultSorted ==
  pc = "done" =>
    \A i \in 1..(Len(result.journeys) - 1) :
      Ordered(result.journeys[i], result.journeys[i + 1])

\* Two journeys are returned, and the one with fewer changes has more stops:
\* the search found it second.
C4_Witness ==
  /\ pc = "done" /\ NamedRoutes /\ Len(result.journeys) = 2
  /\ result.journeys[1].changes < result.journeys[2].changes
  /\ result.journeys[1].totalStops > result.journeys[2].totalStops

\* C5: the segments of every returned journey are contiguous.
C5_SegmentsContiguous ==
  pc = "done" =>
    \A k \in 1..Len(result.journeys) :
      LET segments == result.journeys[k].segments
      IN  \A i \in 1..(Len(segments) - 1) :
            segments[i].toStationCode = segments[i + 1].fromStationCode

\* The stops of the segments, counted from the last segment to the first.
RECURSIVE StopsUpTo(_, _)
StopsUpTo(segments, n) ==
  IF n = 0 THEN 0 ELSE StopsUpTo(segments, n - 1) + segments[n].stopsCount

\* C6: every returned journey has totalStops the sum of the stop counts of its
\* segments and changes one less than the number of its segments.
C6_TotalsOfSegments ==
  pc = "done" =>
    \A k \in 1..Len(result.journeys) :
      LET journey == result.journeys[k]
      IN  /\ journey.totalStops = StopsUpTo(journey.segments, Len(journey.segments))
          /\ journey.changes = Len(journey.segments) - 1

\* A returned journey of two segments, one of them of two stops.
C6_Witness ==
  /\ pc = "done" /\ NamedRoutes /\ Len(result.journeys) > 0
  /\ Len(result.journeys[1].segments) = 2
  /\ result.journeys[1].totalStops = 3
  /\ result.journeys[1].changes = 1

\* C7: every returned journey has segments, the first from the requested
\* origin station and the last to the requested destination station, and
\* carries the codes of these two stations.
C7_OriginToDestination ==
  pc = "done" =>
    \A k \in 1..Len(result.journeys) :
      LET journey  == result.journeys[k]
          segments == journey.segments
      IN  /\ Len(segments) > 0
          /\ segments[1].fromStationCode = toUpperCase(fromCode)
          /\ segments[Len(segments)].toStationCode = toUpperCase(toCode)
          /\ journey.fromStationCode = toUpperCase(fromCode)
          /\ journey.toStationCode = toUpperCase(toCode)


\* The leaves of the search: the nodes of the destination that were dequeued
\* within the depth budget, in the order of their discovery.
Leaves ==
  SelectSeq([n \in 1..Len(nodes) |-> n],
            LAMBDA n : /\ nodes[n].stationCode = toStation[1].code
                       /\ nodes[n].depth <= maxDepth
                       /\ \A q \in 1..Len(queue) : queue[q] # n)

\* The journeys the search found, in the order of their discovery: one for
\* every leaf whose path has segments.
Found ==
  LET all == [l \in 1..Len(Leaves) |->
                MakeJourney(fromStation[1], toStation[1], reconstructPath(nodes, Leaves[l]))]
  IN  SelectSeq(all, LAMBDA j : Len(j.segments) > 0)

\* a is ranked strictly before b.
Before(a, b) ==
  a.changes < b.changes \/ (a.changes = b.changes /\ a.totalStops < b.totalStops)

\* The place of the i-th found journey in the ranked list: after the journeys
\* ranked strictly before it and the equally ranked ones found earlier.
RankOf(js, i) ==
  1 + Cardinality({j \in 1..Len(js) :
                     Before(js[j], js[i]) \/ (~Before(js[i], js[j]) /\ j < i)})

\* C8: at most maxResults journeys are returned, and they are the first
\* maxResults entries of the ranked list of all journeys the search found.
C8_TopOfRanking ==
  (pc = "done" /\ toStation # Null /\ ~sameStation(fromStation[1], toStation[1])) =>
    /\ Len(result.journeys) <= maxResults
    /\ Len(result.journeys) = Min(maxResults, Len(Found))
    /\ \A i \in 1..Len(Found) :
         RankOf(Found, i) <= maxResults => result.journeys[RankOf(Found, i)] = Found[i]

\* Two journeys were found, one is returned, and it is the one found second.
C8_Witness ==
  /\ pc = "done" /\ toStation # Null /\ ~sameStation(fromStation[1], toStation[1])
  /\ NamedRoutes /\ maxResults = 1 /\ Len(Found) = 2
  /\ result.journeys = <<Found[2]>>

\* C9: on the network of R1 = A, B, C and R2 = B, D, E, findJourneys("A", "E")
\* returns exactly one journey: A to B on R1, 1 stop, then B to E on R2,
\* 2 stops; totalStops 3, changes 1.
C9_ScenarioAtoE ==
  (pc = "done" /\ fromCode = "A" /\ toCode = "E") =>
    result = Journeys(<<[fromStationCode |-> "A",
                         toStationCode   |-> "E",
                         segments        |->
                           <<[fromStationCode |-> "A", toStationCode |-> "B",
                              routeName |-> "R1", stopsCount |-> 1],
                             [fromStationCode |-> "B", toStationCode |-> "E",
                              routeName |-> "R2", stopsCount |-> 2]>>,
                         totalStops      |-> 3,
                         changes         |-> 1]>>)

C9_Witness ==
  /\ pc = "done" /\ fromCode = "A" /\ toCode = "E"
  /\ Len(result.journeys) = 1 /\ result.journeys[1].changes = 1

\* C10: on the same network findJourneys("A", "C") returns exactly one
\* journey, the single segment A to C on R1 with 2 stops; changes 0.
C10_ScenarioAtoC ==
  (pc = "done" /\ fromCode = "A" /\ toCode = "C") =>
    /\ result.kind = "journeys"
    /\ Len(result.journeys) = 1
    /\ result.journeys[1].segments =
         <<[fromStationCode |-> "A", toStationCode |-> "C",
            routeName |-> "R1", stopsCount |-> 2]>>
    /\ result.journeys[1].changes = 0

C10_Witness ==
  /\ pc = "done" /\ fromCode = "A" /\ toCode = "C"
  /\ Len(result.journeys) = 1 /\ result.journeys[1].totalStops = 2

\* Nodes that have left the queue.
Dequeued == Len(nodes) - Len(queue)

\* C11: on every network, cyclic and dense ones included, the while loop is
\* left, and the nodes it has dequeued are never more than the passes counted
\* by iterations nor more than maxIterations.
C11_LoopTerminates ==
  /\ [](Dequeued <= Min(iterations, maxIterations))
  /\ (pc = "search") ~> (pc = "rank")

\* The loop is left with an empty queue after the search came back to the
\* origin over an edge and its reverse.
C11_Witness ==
  /\ pc = "rank" /\ queue = <<>> /\ iterations >= 6
  /\ \E n \in 1..Len(nodes) :
       nodes[n].depth >= 2 /\ nodes[n].stationCode = fromStation[1].code

\* The loop was left at the leaf cap.
LeafCapReached == Len(foundJourneys) >= maxResults * oversampling
\* A dequeued node was dropped for its depth.
DepthBudgetReached ==
  \E n \in 1..Len(nodes) :
    nodes[n].depth > maxDepth /\ \A q \in 1..Len(queue) : queue[q] # n
\* The loop was left at the iteration budget.
IterationBudgetReached == iterations > maxIterations

C12_DepthWitness ==
  /\ pc = "done" /\ DepthBudgetReached /\ queue = <<>>
  /\ result = Journeys(<<>>)

Pairs ==
  [i \in 1..Len(returned) |-> <<returned[i].fromCode, returned[i].toCode>>]
    \o [i \in 1..Len(suspended) |-> <<suspended[i].fromCode, suspended[i].toCode>>]
    \o (IF pc = "idle" THEN <<>> ELSE <<(<<fromCode, toCode>>)>>)

DistinctPairs == \A i, j \in 1..Len(Pairs) : i # j => Pairs[i] # Pairs[j]

\* C16: when the invocations of findJourneys that overlap are for distinct
\* (origin, destination) pairs, each of them, however the others are
\* interleaved with it at its awaits, settles with the result it has when it
\* runs alone.
C16_InterleavedAsAlone ==
  DistinctPairs =>
    /\ \A i \in 1..Len(returned) :
         returned[i].result =
           findJourneys(stations, routes, returned[i].fromCode, returned[i].toCode,
                        returned[i].maxResults)
    /\ pc \in {"done", "failed"} =>
         result = findJourneys(stations, routes, fromCode, toCode, maxResults)

\* An invocation has its journeys ready while another, for other stations,
\* waits for its connections.
C16_Witness ==
  /\ pc = "done" /\ Len(result.journeys) > 0
  /\ Len(suspended) = 1 /\ suspended[1].pc = "connections"
  /\ suspended[1].fromStation # fromStation
  /\ DistinctPairs

\* The station code a caller's code spells, letter case aside.
UpperCaseOf(code) ==
  IF code = "a" THEN "A" ELSE IF code = "e" THEN "E" ELSE code

\* C17: when the codes of a call spell stations of the table, in whatever
\* letter case, the call settles with what the call with the upper-case codes
\* settles with: the same journeys in the same order.
C17_CaseInsensitiveCodes ==
  (/\ pc \in {"done", "failed"}
   /\ UpperCaseOf(fromCode) \in stations /\ UpperCaseOf(toCode) \in stations) =>
    result = findJourneys(stations, routes, UpperCaseOf(fromCode), UpperCaseOf(toCode),
                          maxResults)

\* findJourneys("a", "e") returned the journey of findJourneys("A", "E").
C17_Witness ==
  /\ pc = "done" /\ fromCode = "a" /\ toCode = "e"
  /\ Len(result.journeys) = 1
  /\ result.journeys[1].fromStationCode = "A"
  /\ result.journeys[1].toStationCode = "E"

\* The hops from the root of the search tree down to node n: for each, the
\* station left, the station reached and the line taken.
RECURSIVE HopsTo(_, _)
HopsTo(ns, n) ==
  IF ns[n].parent = 0 THEN <<>>
  ELSE Append(HopsTo(ns, ns[n].parent),
              [from |-> ns[ns[n].parent].stationCode,
               to   |-> ns[n].stationCode,
               line |-> ns[n].routeName[1]])

\* The rides of a sequence of hops: every maximal run of consecutive hops on
\* one line is one segment, with as many stops as the run has hops.
RECURSIVE Rides(_, _, _)
Rides(hops, i, segments) ==
  IF i > Len(hops) THEN segments
  ELSE IF Len(segments) > 0 /\ segments[Len(segments)].routeName = hops[i].line
    THEN Rides(hops, i + 1,
               [segments EXCEPT ![Len(segments)].toStationCode = hops[i].to,
                                ![Len(segments)].stopsCount = @ + 1])
    ELSE Rides(hops, i + 1,
               Append(segments, [fromStationCode |-> hops[i].from,
                                 toStationCode   |-> hops[i].to,
                                 routeName       |-> hops[i].line,
                                 stopsCount      |-> 1]))

\* C18: in every returned journey no two adjacent segments have the same line
\* name, and the segments are the rides of the path of a leaf: consecutive
\* hops on one line are one segment whose stopsCount is their number.
C18_SegmentsAreRides ==
  pc = "done" =>
    \A k \in 1..Len(result.journeys) :
      LET segments == result.journeys[k].segments
      IN  /\ \A i \in 1..(Len(segments) - 1) :
               segments[i].routeName # segments[i + 1].routeName
          /\ \E l \in 1..Len(Leaves) :
               segments = Rides(HopsTo(nodes, Leaves[l]), 1, <<>>)

\* The first part of C18 alone.
C18_AdjacentLinesDiffer ==
  pc = "done" =>
    \A k \in 1..Len(result.journeys) :
      \A i \in 1..(Len(result.journeys[k].segments) - 1) :
        result.journeys[k].segments[i].routeName
          # result.journeys[k].segments[i + 1].routeName

\* C18 on the databases in which every route has a name.
C18_NamedSegmentsAreRides == NamedRoutes => C18_SegmentsAreRides

\* buildConnectionGraph has returned in this invocation.
GraphBuilt ==
  \/ pc \in {"search", "rank"}
  \/ pc = "done" /\ ~sameStation(fromStation[1], toStation[1])
  \/ pc = "failed" /\ result.message = "No connections found from station: "

\* The edges of an adjacency map: station, neighbour, line name, route id.
EdgesOf(g) ==
  UNION {{<<u, g[u][i].toStationCode, g[u][i].routeName, g[u][i].routeId>> :
            i \in 1..Len(g[u])} : u \in DOMAIN g}

\* Every connection forwards and backwards.
BothWays(connections) ==
  UNION {{<<connections[i].fromStationCode, connections[i].toStationCode,
            connections[i].routeName, connections[i].routeId>>,
          <<connections[i].toStationCode, connections[i].fromStationCode,
            connections[i].routeName, connections[i].routeId>>} :
           i \in 1..Len(connections)}

\* Number of edges of the stations in the set S.
RECURSIVE EdgeCount(_, _)
EdgeCount(g, S) ==
  IF S = {} THEN 0
  ELSE LET u == CHOOSE x \in S : TRUE IN Len(g[u]) + EdgeCount(g, S \ {u})

\* C19: the graph holds, for every connection, the edge from its first station
\* to its second and the edge back, both with the connection's line, and no
\* other edge: two edges per connection, no station without an edge, and no
\* station at all when there is no connection.
C19_GraphIsConnectionsBothWays ==
  GraphBuilt =>
    /\ EdgesOf(graph) = BothWays(Connections)
    /\ EdgeCount(graph, DOMAIN graph) = 2 * Len(Connections)
    /\ \A u \in DOMAIN graph : Len(graph[u]) > 0
    /\ Connections = <<>> => graph = <<>>

\* A graph of four connections over four stations, one of them with the edges
\* of two routes.
C19_Witness ==
  /\ pc = "search" /\ Len(Connections) = 4
  /\ DOMAIN graph = {"A", "B", "C", "D"}
  /\ \E u \in DOMAIN graph :
       \E i, j \in 1..Len(graph[u]) : graph[u][i].routeId # graph[u][j].routeId

\* The next pass of the loop explores the neighbours of the node it dequeues.
Expanding ==
  /\ pc = "search" /\ LoopCondition
  /\ iterations + 1 <= maxIterations
  /\ nodes[Head(queue)].depth <= maxDepth
  /\ nodes[Head(queue)].stationCode # toStation[1].code

\* The edges it explores, and the key of an edge: station reached, line taken.
EdgesExplored == get(graph, nodes[Head(queue)].stationCode)
KeyOf(edge) == <<edge.toStationCode, edge.routeName>>

\* The i-th edge explored gets a child: when the loop comes to it, its key is
\* not in the table or is there at a depth greater than d + 1.  An earlier
\* edge of this pass with the same key has put it there at d + 1.
Admitted(i) ==
  LET key == KeyOf(EdgesExplored[i])
      d   == nodes[Head(queue)].depth
  IN  /\ key \notin DOMAIN visited \/ visited[key] > d + 1
      /\ \A j \in 1..(i - 1) : KeyOf(EdgesExplored[j]) # key

ChildrenExpected ==
  LET admitted == SelectSeq([i \in 1..Len(EdgesExplored) |-> i], Admitted)
  IN  [c \in 1..Len(admitted) |->
         [stationCode |-> EdgesExplored[admitted[c]].toStationCode,
          routeName   |-> Some(EdgesExplored[admitted[c]].routeName),
          depth       |-> nodes[Head(queue)].depth + 1,
          parent      |-> Head(queue)]]

\* The key under which a node of the search tree was enqueued.
KeyOfNode(n) == <<nodes[n].stationCode, nodes[n].routeName[1]>>

\* The table holds exactly the keys of the nodes enqueued, each at the least
\* depth of its nodes.
TableHoldsMinimum ==
  /\ DOMAIN visited = {KeyOfNode(n) : n \in 2..Len(nodes)}
  /\ \A n \in 2..Len(nodes) :
       /\ visited[KeyOfNode(n)] <= nodes[n].depth
       /\ \E m \in 2..Len(nodes) :
            KeyOfNode(m) = KeyOfNode(n) /\ nodes[m].depth = visited[KeyOfNode(n)]

\* C20: a pass that explores the edges of a node at depth d enqueues a child,
\* at depth d + 1, for exactly the edges whose key is absent from the visited
\* table or recorded deeper than d + 1, and records d + 1 for their keys; so
\* the table always holds the least depth at which each key was enqueued.
C20_EnqueueIffShallower ==
  /\ [][Expanding =>
          /\ nodes' = nodes \o ChildrenExpected
          /\ queue' = Tail(queue) \o [c \in 1..Len(ChildrenExpected) |-> Len(nodes) + c]
          /\ DOMAIN visited' =
               DOMAIN visited \cup {KeyOf(EdgesExplored[i]) : i \in 1..Len(EdgesExplored)}
          /\ \A key \in DOMAIN visited' :
               visited'[key] =
                 IF \E c \in 1..Len(ChildrenExpected) :
                      key = <<ChildrenExpected[c].stationCode, ChildrenExpected[c].routeName[1]>>
                   THEN nodes[Head(queue)].depth + 1
                   ELSE visited[key]]_vars
  /\ []TableHoldsMinimum

\* A node was explored that has an edge with a child and an edge without:
\* the key of the second was in the table already.
C20_Witness ==
  /\ pc = "search"
  /\ \E n \in 1..Len(nodes) :
       /\ \A q \in 1..Len(queue) : queue[q] # n
       /\ nodes[n].stationCode # toStation[1].code
       /\ \E i, j \in 1..Len(get(graph, nodes[n].stationCode)) :
            LET edges == get(graph, nodes[n].stationCode)
                ChildOf(e) == \E m \in 2..Len(nodes) :
                                /\ nodes[m].parent = n
                                /\ KeyOfNode(m) = KeyOf(e)
            IN  ChildOf(edges[i]) /\ ~ChildOf(edges[j])

\* C21: every node of the destination that was dequeued within the depth
\* budget is recorded in foundJourneys and has no child in the search tree,
\* and the loop is not left for it: it is left on an empty queue, at the leaf
\* cap or at the iteration budget.
C21_LeafRecordedNotExpanded ==
  (pc \in {"search", "rank", "done"} /\ nodes # <<>>) =>
    /\ Len(foundJourneys) = Len(Leaves)
    /\ \A l \in 1..Len(Leaves) : \A m \in 1..Len(nodes) : nodes[m].parent # Leaves[l]
    /\ pc \in {"rank", "done"} =>
         queue = <<>> \/ LeafCapReached \/ IterationBudgetReached

\* C21 on the databases in which every route has a name.
C21_NamedLeafRecordedNotExpanded == NamedRoutes => C21_LeafRecordedNotExpanded

\* C22: a node deeper than maxDepth that was dequeued has no child in the
\* search tree and added no journey, and no journey found or returned has
\* more than maxDepth stops.
C22_DeepNodesDropped ==
  (pc \in {"search", "rank", "done"} /\ nodes # <<>>) =>
    /\ \A n, m \in 1..Len(nodes) : nodes[n].depth > maxDepth => nodes[m].parent # n
    /\ Len(foundJourneys) <= Len(Leaves)
    /\ \A k \in 1..Len(foundJourneys) : foundJourneys[k].totalStops <= maxDepth
    /\ \A k \in 1..Len(result.journeys) : result.journeys[k].totalStops <= maxDepth

\* The destination was enqueued sixteen hops from the origin and dropped:
\* nothing is returned.
C22_Witness ==
  /\ pc = "done" /\ result = Journeys(<<>>)
  /\ \E n \in 1..Len(nodes) :
       /\ nodes[n].depth = maxDepth + 1
       /\ nodes[n].stationCode = toStation[1].code
       /\ \A q \in 1..Len(queue) : queue[q] # n

\* C23: foundJourneys never holds more than maxResults * 5 journeys, and
\* once it holds that many the loop takes nothing more from the queue: the
\* queue, the search tree and the visited table stay as they are.
C23_LeafCap ==
  /\ [](Len(foundJourneys) <= maxResults * 5)
  /\ [][(pc = "search" /\ Len(foundJourneys) >= maxResults * 5) =>
          /\ pc' = "rank"
          /\ UNCHANGED <<queue, nodes, visited, foundJourneys, iterations>>]_vars

\* The loop was left at the cap of a call for one journey, with a node of the
\* destination still in the queue.
C23_Witness ==
  /\ pc = "rank" /\ maxResults = 1 /\ Len(foundJourneys) = 5
  /\ Len(queue) = 1 /\ nodes[queue[1]].stationCode = toStation[1].code

\* The journey was found before the other: it comes earlier in the order of
\* discovery of the leaves.
FoundEarlier(a, b) ==
  \E i, j \in 1..Len(Found) : i < j /\ Found[i] = a /\ Found[j] = b

\* C24: two returned journeys with the same changes and the same totalStops
\* are returned in the order in which their leaves were found.
C24_TiesInDiscoveryOrder ==
  (pc = "done" /\ nodes # <<>>) =>
    \A i, j \in 1..Len(result.journeys) :
      (/\ i < j
       /\ result.journeys[i].changes = result.journeys[j].changes
       /\ result.journeys[i].totalStops = result.journeys[j].totalStops)
        => FoundEarlier(result.journeys[i], result.journeys[j])

\* Two journeys of one stop and no change are returned, the one found first
\* before the other.
C24_Witness ==
  /\ pc = "done" /\ nodes # <<>> /\ Len(result.journeys) = 2
  /\ result.journeys[1].changes = result.journeys[2].changes
  /\ result.journeys[1].totalStops = result.journeys[2].totalStops
  /\ result.journeys[1] = Found[1] /\ result.journeys[2] = Found[2]

\* The call is one that ends at the checks of the stations: a code without a
\* station, or one station for both codes.
EndsAtChecks ==
  \/ fromStation = Null
  \/ toStation = Null
  \/ sameStation(fromStation[1], toStation[1])

\* C25: a call with a code that has no station, or with one station for both
\* codes, never awaits findAllConnections, and ends with no graph built and
\* no pass of the search loop made.
C25_ChecksBeforeConnections ==
  /\ [][pc' = "connections" => ~EndsAtChecks']_vars
  /\ []((pc \in {"done", "failed"} /\ EndsAtChecks) =>
          /\ graph = <<>> /\ nodes = <<>> /\ queue = <<>> /\ visited = <<>>
          /\ iterations = 0
          /\ result.message # "No connections found from station: ")

\* findJourneys("A", "a") returned while the database has connections from A:
\* no graph was built.
C25_Witness ==
  /\ pc = "done" /\ fromCode = "A" /\ toCode = "a"
  /\ HasEdge("A") /\ graph = <<>> /\ iterations = 0

\* The stations next to a station of the set S in the undirected graph of the
\* connections, S included.
Around(S) ==
  S \cup {Connections[i].toStationCode :
            i \in {c \in 1..Len(Connections) : Connections[c].fromStationCode \in S}}
    \cup {Connections[i].fromStationCode :
            i \in {c \in 1..Len(Connections) : Connections[c].toStationCode \in S}}

\* The stations within k hops of the set S.
RECURSIVE Within(_, _)
Within(S, k) == IF k = 0 THEN S ELSE Within(Around(S), k - 1)

\* The destination is within maxDepth hops of the origin.
Reachable == toStation[1].code \in Within({fromStation[1].code}, maxDepth)

\* C26: a call for two distinct stations returns a non-empty list when the
\* destination is within maxDepth hops of the origin in the undirected graph,
\* and the empty list, without an error, when it is not.
C26_NonEmptyIffReachable ==
  (/\ pc \in {"done", "failed"}
   /\ fromStation # Null /\ toStation # Null
   /\ ~sameStation(fromStation[1], toStation[1])) =>
    /\ Reachable => result.kind = "journeys" /\ Len(result.journeys) > 0
    /\ ~Reachable => result = Journeys(<<>>)

\* C26 without its two failures: every route has a name and the origin has
\* an edge.
C26_NamedNonEmptyIffReachable ==
  (NamedRoutes /\ fromStation # Null /\ HasEdge(fromStation[1].code))
    => C26_NonEmptyIffReachable

\* The names of the lines that have an edge into the station.
LinesInto(code) ==
  {Connections[i].routeName :
     i \in {c \in 1..Len(Connections) :
              Connections[c].toStationCode = code \/ Connections[c].fromStationCode = code}}

\* The line of the last segment of a journey.
ArrivalLine(journey) == journey.segments[Len(journey.segments)].routeName

\* C27: the journeys found by a call are never more than the lines with an
\* edge into the destination, and any two returned journeys end with segments
\* of different line names.
C27_ArriveOnDifferentLines ==
  (pc \in {"search", "rank", "done"} /\ nodes # <<>>) =>
    /\ Len(foundJourneys) <= Cardinality(LinesInto(toStation[1].code))
    /\ \A i, j \in 1..Len(result.journeys) :
         i # j => ArrivalLine(result.journeys[i]) # ArrivalLine(result.journeys[j])

\* C27 on the databases in which every route has a name.
C27_NamedArriveOnDifferentLines == NamedRoutes => C27_ArriveOnDifferentLines

\* C28: no two nodes of the search tree were enqueued under one (station,
\* line) key, the nodes were enqueued in the order of their depths, and an
\* entry of the visited table, once written, keeps its depth.
C28_KeyEnqueuedOnce ==
  /\ [](/\ \A n, m \in 2..Len(nodes) : n # m => KeyOfNode(n) # KeyOfNode(m)
        /\ \A n, m \in 1..Len(nodes) : n < m => nodes[n].depth <= nodes[m].depth)
  /\ [][\A key \in DOMAIN visited :
          key \in DOMAIN visited' /\ visited'[key] = visited[key]]_vars

\* The search ended after it met a key for the second time: a node that was
\* explored has an edge that got no child, and every key has one node.
C28_Witness ==
  /\ pc = "rank" /\ queue = <<>>
  /\ Cardinality(DOMAIN visited) = Len(nodes) - 1
  /\ \E n \in 1..Len(nodes) :
       /\ nodes[n].stationCode # toStation[1].code
       /\ \E i \in 1..Len(get(graph, nodes[n].stationCode)) :
            \A m \in 2..Len(nodes) :
              nodes[m].parent = n => KeyOfNode(m) # KeyOf(get(graph, nodes[n].stationCode)[i])

\* The stations of the path from the root of the search tree down to node n.
RECURSIVE StationsTo(_, _)
StationsTo(ns, n) ==
  IF ns[n].parent = 0 THEN <<ns[n].stationCode>>
  ELSE Append(StationsTo(ns, ns[n].parent), ns[n].stationCode)

\* C29: the path of every leaf the search finds starts at the origin station,
\* ends at the destination station, and passes through neither in between.
C29_EndsOnlyAtEnds ==
  (pc \in {"search", "rank", "done"} /\ nodes # <<>>) =>
    \A l \in 1..Len(Leaves) :
      LET path == StationsTo(nodes, Leaves[l])
      IN  /\ path[1] = fromStation[1].code
          /\ path[Len(path)] = toStation[1].code
          /\ \A i \in 2..(Len(path) - 1) :
               path[i] # fromStation[1].code /\ path[i] # toStation[1].code

\* A journey over two intermediate stations is returned, while the search
\* also came back to the origin.
C29_Witness ==
  /\ pc = "done" /\ Len(result.journeys) > 0
  /\ \E l \in 1..Len(Leaves) : Len(StationsTo(nodes, Leaves[l])) = 4
  /\ \E n \in 2..Len(nodes) : nodes[n].stationCode = fromStation[1].code

====
